---------------------------- MODULE Spec2Model ----------------------------
(***************************************************************************)
(* Model of MonConvert (src/app.py): a Flask service that rate-limits      *)
(* /upload per client address, validates and saves an uploaded video,     *)
(* converts it with an external ffmpeg process, and serves the result      *)
(* once through /download/<filename>.                                      *)
(*                                                                         *)
(* Text values (file names, form fields) are sequences of one-character    *)
(* strings, so that lower(), rsplit() and secure_filename() are computed   *)
(* and not assumed.  A uuid4 string is one atom ("j1", "j2", ...): it      *)
(* consists of hex digits and '-' only, all of which every function here   *)
(* treats like a letter.                                                   *)
(*                                                                         *)
(* Request handling is split at the points where another thread of the     *)
(* threaded server, the clock or the encoder process can interleave.       *)
(* os.remove of an existing file is taken to succeed; removing a file      *)
(* that is gone raises OSError, which cleanup_file catches.  time.time()   *)
(* is taken to be non-decreasing.                                          *)
(***************************************************************************)
EXTENDS Integers, Sequences, FiniteSets, TLC

\* Python's None, for a name, a number, a text and a path
None == "None"
NoLength == 0 - 1
NoText == <<"None">>
NoPath == <<"None", <<>>>>

\* ------------------------------------------------------------------
\* Configuration (app.py lines 15-26)
\* ------------------------------------------------------------------
UPLOAD_FOLDER == "uploads"
CONVERTED_FOLDER == "converted"
ALLOWED_EXTENSIONS ==
    { <<"m","p","4">>, <<"a","v","i">>, <<"m","o","v">>, <<"w","m","v">>,
      <<"f","l","v">>, <<"m","k","v">>, <<"w","e","b","m">>,
      <<"m","p","e","g">>, <<"m","p","g">>, <<"m","4","v">> }
MAX_FILE_SIZE_MB == 100
RATE_LIMIT_REQUESTS == 5
RATE_LIMIT_WINDOW_SECONDS == 60
MAX_CONTENT_LENGTH == MAX_FILE_SIZE_MB * 1024 * 1024

\* ------------------------------------------------------------------
\* Bounds of the exploration
\* ------------------------------------------------------------------
MaxClock == 60     \* the clock stops advancing here
MaxJobs == 2       \* uuid4 identifiers minted in one run
NumWorkers == 2    \* request threads
MaxPassed == 6     \* requests let through the gate while threads race for it

Workers == 1..NumWorkers
\* The remote addresses requests come from: two, since the entries of
\* different addresses in request_timestamps never interact
Clients == {"10.0.0.1", "10.0.0.2"}
Client1 == "10.0.0.1"
\* the amounts by which the clock is seen to advance between two steps
TickSteps == {RATE_LIMIT_WINDOW_SECONDS \div 2, RATE_LIMIT_WINDOW_SECONDS - 1}

\* ------------------------------------------------------------------
\* Text functions
\* ------------------------------------------------------------------
UpperCase == <<"A","B","C","D","E","F","G","H","I","J","K","L","M",
               "N","O","P","Q","R","S","T","U","V","W","X","Y","Z">>
LowerCase == <<"a","b","c","d","e","f","g","h","i","j","k","l","m",
               "n","o","p","q","r","s","t","u","v","w","x","y","z">>

\* str.lower() on one character
LowerChar(c) ==
    IF \E i \in 1..26 : UpperCase[i] = c
    THEN LowerCase[CHOOSE i \in 1..26 : UpperCase[i] = c]
    ELSE c

\* str.lower()
Lower(s) == [i \in 1..Len(s) |-> LowerChar(s[i])]

\* c in s
Contains(s, c) == \E i \in 1..Len(s) : s[i] = c

\* s.rsplit(c, 1)[1], defined when c occurs in s: the text after the last c
RSplitLast(s, c) ==
    LET last == CHOOSE i \in 1..Len(s) :
                    s[i] = c /\ \A j \in (i+1)..Len(s) : s[j] # c
    IN  SubSeq(s, last + 1, Len(s))

allowed_file_casesensitive(filename) ==
    Contains(filename, ".") /\ RSplitLast(filename, ".") \in ALLOWED_EXTENSIONS

\* allowed_file (lines 37-40)
allowed_file(filename) ==
    Contains(filename, ".") /\ Lower(RSplitLast(filename, ".")) \in ALLOWED_EXTENSIONS

\* Characters werkzeug's secure_filename keeps: [A-Za-z0-9_.-]; a uuid atom is
\* made of such characters.
Digits == {"0","1","2","3","4","5","6","7","8","9"}
Tokens == {"j1", "j2", "j3", "j4"}
IsSafeChar(c) ==
    \/ \E i \in 1..26 : c = UpperCase[i] \/ c = LowerCase[i]
    \/ c \in Digits \/ c \in {"_", ".", "-"} \/ c \in Tokens

Filter(s, Keep(_)) == SelectSeq(s, Keep)

\* "_".join(s.split()): runs of white space become one "_", none at the ends
RECURSIVE JoinWords(_, _, _)
JoinWords(s, i, pendingGap) ==
    IF i > Len(s) THEN <<>>
    ELSE IF s[i] = " " THEN JoinWords(s, i + 1, TRUE)
    ELSE (IF pendingGap THEN <<"_">> ELSE <<>>) \o <<s[i]>> \o JoinWords(s, i + 1, FALSE)

RECURSIVE LStrip(_)
LStrip(s) == IF Len(s) > 0 /\ s[1] \in {".", "_"} THEN LStrip(Tail(s)) ELSE s
RECURSIVE RStrip(_)
RStrip(s) ==
    IF Len(s) > 0 /\ s[Len(s)] \in {".", "_"} THEN RStrip(SubSeq(s, 1, Len(s) - 1)) ELSE s

RECURSIVE SkipSpaces(_)
SkipSpaces(s) == IF Len(s) > 0 /\ s[1] = " " THEN SkipSpaces(Tail(s)) ELSE s

\* werkzeug.utils.secure_filename as called at lines 128 and 219: path
\* separators become white space, white-space runs become "_", every
\* character outside [A-Za-z0-9_.-] is dropped, leading and trailing "." and
\* "_" are stripped.
secure_filename(filename) ==
    LET seps   == [i \in 1..Len(filename) |->
                      IF filename[i] = "/" THEN " " ELSE filename[i]]
        joined == JoinWords(SkipSpaces(seps), 1, FALSE)
        kept   == Filter(joined, IsSafeChar)
    IN  RStrip(LStrip(kept))


\* ------------------------------------------------------------------
\* State
\* ------------------------------------------------------------------
VARIABLES
    clock,               \* what time.time() returns
    request_timestamps,  \* line 33: remote address -> list of timestamps
    dirs,                \* directories that exist
    files,               \* path -> content, for the files that exist
    minted,              \* number of uuid4 values minted so far
    log,                 \* encoder diagnostics written to the server log
    pc,                  \* worker -> position in the handler it runs
    req,                 \* worker -> the request it is handling
    loc,                 \* worker -> local variables of the handler
    resp,                \* worker -> the response returned
    passed,              \* history: remote address -> timestamps of the requests
                         \* that passed the gate, in the order they passed
    downloads,           \* history: name returned by a 200 upload -> statuses of the
                         \* downloads of it answered since, a repeated status once
    entry                \* history: worker -> what the file system, the client's
                         \* recorded list and the names handed out by 200 uploads
                         \* were when its request arrived

vars == <<clock, request_timestamps, dirs, files, minted, log, pc, req, loc, resp, passed,
          downloads, entry>>

\* Records are written with their fields in the order TLC keeps them in
\* (the order in which the names first occur in this module), so that its
\* workers never reorder a record they share.
NoEntry == [dirs |-> {}, files |-> [f \in {} |-> None], timestamps |-> <<>>, tokens |-> {}]

NoRequest ==
    [filename |-> NoText, route |-> None, remote_addr |-> None, has_file |-> FALSE,
     content_length |-> NoLength, compression |-> NoText, resolution |-> NoText]

NoLocals ==
    [now |-> NoLength, pruned |-> <<>>, unique_id |-> None, original_extension |-> NoText,
     upload_path |-> NoPath, converted_path |-> NoPath, crf |-> None, vf |-> None,
     process |-> None, exc |-> None, opened |-> FALSE, file_path |-> NoPath,
     sent |-> None]

NoResponse == [filename |-> NoText, status |-> 0, body |-> None]

UploadRequest(c, hf, fn, cl, comp, res) ==
    [filename |-> fn, route |-> "upload", remote_addr |-> c, has_file |-> hf,
     content_length |-> cl, compression |-> comp, resolution |-> res]

DownloadRequest(c, fn) ==
    [filename |-> fn, route |-> "download", remote_addr |-> c, has_file |-> FALSE,
     content_length |-> NoLength, compression |-> NoText, resolution |-> NoText]

Exists(path) == path \in DOMAIN files
Without(f, path) == [q \in DOMAIN f \ {path} |-> f[q]]
With(f, path, content) == [q \in DOMAIN f \cup {path} |-> IF q = path THEN content ELSE f[q]]

\* the program's own directory holds files the service must never hand out
Init ==
    /\ clock = 0
    /\ request_timestamps = [c \in Clients |-> <<>>]
    /\ dirs \in {{}, {UPLOAD_FOLDER, CONVERTED_FOLDER}}
    /\ files = (<< ".", <<"s","e","c","r","e","t">> >> :> "other")
    /\ minted = 0
    /\ log = {}
    /\ pc = [w \in Workers |-> "idle"]
    /\ req = [w \in Workers |-> NoRequest]
    /\ loc = [w \in Workers |-> NoLocals]
    /\ resp = [w \in Workers |-> NoResponse]
    /\ passed = [c \in Clients |-> <<>>]
    /\ downloads = [f \in {} |-> <<>>]
    /\ entry = [w \in Workers |-> NoEntry]

\* ------------------------------------------------------------------
\* The clock
\* ------------------------------------------------------------------
Tick(d) ==
    /\ clock + d <= MaxClock
    /\ clock' = clock + d
    /\ UNCHANGED <<request_timestamps, dirs, files, minted, log, pc, req, loc, resp, passed, downloads, entry>>

\* ------------------------------------------------------------------
\* rate_limit (lines 57-77)
\* ------------------------------------------------------------------
Prune_inclusive(timestamps, now, window) ==
    SelectSeq(timestamps, LAMBDA ts : now - ts <= window)

\* line 66: [ts for ts in request_timestamps[ip_address] if now - ts < window]
Prune(timestamps, now, window) ==
    SelectSeq(timestamps, LAMBDA ts : now - ts < window)

LimitExceeded_offbyone(timestamps, limit) == Len(timestamps) > limit

\* line 69
LimitExceeded(timestamps, limit) == Len(timestamps) >= limit

RateLimitBody == "Rate limit exceeded. Please wait 60 seconds."

\* lines 62-66, the right-hand side: read the clock, filter the stored list
GatePrune(w) ==
    /\ pc[w] = "gate_prune"
    /\ loc' = [loc EXCEPT ![w].now = clock,
                          ![w].pruned = Prune(request_timestamps[req[w].remote_addr],
                                              clock, RATE_LIMIT_WINDOW_SECONDS)]
    /\ pc' = [pc EXCEPT ![w] = "gate_store"]
    /\ UNCHANGED <<clock, request_timestamps, dirs, files, minted, log, req, resp, passed, downloads, entry>>

\* line 66, the assignment
GateStore(w) ==
    /\ pc[w] = "gate_store"
    /\ request_timestamps' = [request_timestamps EXCEPT ![req[w].remote_addr] = loc[w].pruned]
    /\ loc' = [loc EXCEPT ![w].pruned = <<>>]
    /\ pc' = [pc EXCEPT ![w] = "gate_check"]
    /\ UNCHANGED <<clock, dirs, files, minted, log, req, resp, passed, downloads, entry>>

\* lines 69-71
GateCheck(w) ==
    /\ pc[w] = "gate_check"
    /\ IF LimitExceeded(request_timestamps[req[w].remote_addr], RATE_LIMIT_REQUESTS)
       THEN /\ resp' = [resp EXCEPT ![w] = [filename |-> NoText, status |-> 429,
                                              body |-> RateLimitBody]]
            /\ pc' = [pc EXCEPT ![w] = "done"]
       ELSE /\ pc' = [pc EXCEPT ![w] = "gate_append"]
            /\ UNCHANGED resp
    /\ UNCHANGED <<clock, request_timestamps, dirs, files, minted, log, req, loc, passed, downloads, entry>>

GateAppend_norecord(w) ==
    /\ pc[w] = "gate_append"
    /\ passed' = [passed EXCEPT ![req[w].remote_addr] = Append(@, loc[w].now)]
    /\ pc' = [pc EXCEPT ![w] = "validate"]
    /\ UNCHANGED <<clock, request_timestamps, dirs, files, minted, log, req, loc, resp, downloads, entry>>

\* lines 74-75
GateAppend(w) ==
    /\ pc[w] = "gate_append"
    /\ request_timestamps' = [request_timestamps EXCEPT ![req[w].remote_addr] =
                                 Append(@, loc[w].now)]
    /\ passed' = [passed EXCEPT ![req[w].remote_addr] = Append(@, loc[w].now)]
    /\ pc' = [pc EXCEPT ![w] = "validate"]
    /\ UNCHANGED <<clock, dirs, files, minted, log, req, loc, resp, downloads, entry>>


\* ------------------------------------------------------------------
\* cleanup_file (lines 47-54)
\* ------------------------------------------------------------------
CleanupFinds_never(filepath) == FALSE

\* line 49: filepath and os.path.exists(filepath)
CleanupFinds(filepath) == filepath # NoPath /\ Exists(filepath)

Remove_keeps(filepath) == files

\* lines 50-54: os.remove; a file that is gone meanwhile raises OSError,
\* which is logged and swallowed
Remove(filepath) == IF Exists(filepath) THEN Without(files, filepath) ELSE files

Log_RemoveError == "Error removing temporary file"
Body_Unhandled == "Internal Server Error"

\* line 51: os.remove raises FileNotFoundError, an OSError, when the file
\* was removed after the test of line 49
OsRemoveRaises(filepath) == ~Exists(filepath)

CleanupCatches_none(e) == FALSE

\* line 53: except OSError
CleanupCatches(e) == e \in {"OSError", "FileNotFoundError", "PermissionError"}

\* lines 50-54 run by worker w, which goes on at `next`: the file is removed,
\* or the error is logged and swallowed; an exception that line 53 did not
\* catch would leave the handler and be answered by the framework
CleanupRemove(w, filepath, next) ==
    /\ files' = Remove(filepath)
    /\ IF ~OsRemoveRaises(filepath)
       THEN /\ pc' = [pc EXCEPT ![w] = next]
            /\ UNCHANGED <<log, loc, resp>>
       ELSE IF CleanupCatches("FileNotFoundError")
       THEN /\ log' = log \cup {Log_RemoveError}
            /\ pc' = [pc EXCEPT ![w] = next]
            /\ UNCHANGED <<loc, resp>>
       ELSE /\ loc' = [loc EXCEPT ![w].exc = "FileNotFoundError"]
            /\ resp' = [resp EXCEPT ![w] = [filename |-> <<"None">>, status |-> 500,
                                             body |-> Body_Unhandled]]
            /\ pc' = [pc EXCEPT ![w] = "done"]
            /\ UNCHANGED log

\* ------------------------------------------------------------------
\* upload_file (lines 97-211)
\* ------------------------------------------------------------------
Body_NoFilePart == "No file part provided."
Body_NoFileSelected == "No file selected."
Body_InvalidType == "Invalid file type. Allowed types: ..."
Body_TooLarge == "File is too large. Maximum size is 100 MB."
Body_ConversionFailed ==
    "Video conversion failed. The format might be unsupported or the file corrupted."
Body_InternalError == "An internal server error occurred."

Reply(st, b) == [filename |-> NoText, status |-> st, body |-> b]

\* line 26 with line 106: MAX_CONTENT_LENGTH is set in app.config, so the
\* framework raises RequestEntityTooLarge when request.files makes it parse
\* a body whose declared length exceeds that maximum
FormParseRaises(r) ==
    r.content_length # NoLength /\ r.content_length > MAX_CONTENT_LENGTH

\* line 123
DeclaredTooLarge(r) ==
    r.content_length # NoLength /\ r.content_length # 0
        /\ r.content_length > MAX_CONTENT_LENGTH

\* lines 104-125 and, for the exception of line 106, lines 197-201: the
\* response of the validation stage; status 0 stands for "validation passed"
Validate(r) ==
    IF FormParseRaises(r) THEN Reply(500, Body_InternalError)
    ELSE IF ~r.has_file THEN Reply(400, Body_NoFilePart)
    ELSE IF r.filename = <<>> THEN Reply(400, Body_NoFileSelected)
    ELSE IF ~allowed_file(r.filename) THEN Reply(400, Body_InvalidType)
    ELSE IF DeclaredTooLarge(r) THEN Reply(413, Body_TooLarge)
    ELSE Reply(0, None)

UploadValidate_savesfirst(w) ==
    /\ pc[w] = "validate"
    /\ dirs' = dirs \cup {UPLOAD_FOLDER, CONVERTED_FOLDER}
    /\ files' = With(files, <<UPLOAD_FOLDER, req[w].filename>>, "input")
    /\ IF Validate(req[w]).status = 0
       THEN /\ pc' = [pc EXCEPT ![w] = "save"]
            /\ UNCHANGED <<resp, loc>>
       ELSE /\ pc' = [pc EXCEPT ![w] = "fin_in"]
            /\ resp' = [resp EXCEPT ![w] = Validate(req[w])]
            /\ loc' = [loc EXCEPT ![w].exc =
                          IF FormParseRaises(req[w]) THEN "RequestEntityTooLarge" ELSE None]
    /\ UNCHANGED <<clock, request_timestamps, minted, log, req, passed, downloads, entry>>

\* lines 99-125: create_temp_dirs, then the validation stage
UploadValidate(w) ==
    /\ pc[w] = "validate"
    /\ dirs' = dirs \cup {UPLOAD_FOLDER, CONVERTED_FOLDER}
    /\ IF Validate(req[w]).status = 0
       THEN /\ pc' = [pc EXCEPT ![w] = "save"]
            /\ UNCHANGED <<resp, loc>>
       ELSE /\ pc' = [pc EXCEPT ![w] = "fin_in"]
            /\ resp' = [resp EXCEPT ![w] = Validate(req[w])]
            /\ loc' = [loc EXCEPT ![w].exc =
                          IF FormParseRaises(req[w]) THEN "RequestEntityTooLarge" ELSE None]
    /\ UNCHANGED <<clock, request_timestamps, files, minted, log, req, passed, downloads, entry>>

Token(n) == CASE n = 1 -> "j1" [] n = 2 -> "j2" [] n = 3 -> "j3" [] OTHER -> "j4"

\* line 131
OriginalExtension(original_filename) ==
    IF Contains(original_filename, ".")
    THEN Lower(RSplitLast(original_filename, "."))
    ELSE <<>>

\* lines 132-133
UploadPath(unique_id, original_extension) ==
    <<UPLOAD_FOLDER, <<unique_id, ".">> \o original_extension>>

\* lines 136-137
ConvertedFilename(unique_id) == <<unique_id, ".", "m", "p", "4">>
ConvertedPath(unique_id) == <<CONVERTED_FOLDER, ConvertedFilename(unique_id)>>

\* lines 128-140: mint the names, then file.save, which writes the whole
\* file or raises after writing nothing or a part of it
UploadSave(w) ==
    /\ pc[w] = "save"
    /\ LET id  == Token(minted + 1)
           ext == OriginalExtension(secure_filename(req[w].filename))
           up  == UploadPath(id, ext)
       IN  /\ minted' = minted + 1
           /\ \/ /\ files' = With(files, up, "input")
                 /\ pc' = [pc EXCEPT ![w] = "spawn"]
                 /\ loc' = [loc EXCEPT ![w].unique_id = id,
                                       ![w].original_extension = ext,
                                       ![w].upload_path = up,
                                       ![w].converted_path = ConvertedPath(id)]
                 /\ UNCHANGED resp
              \/ /\ files' \in {files, With(files, up, "input_partial")}
                 /\ pc' = [pc EXCEPT ![w] = "fin_in"]
                 /\ loc' = [loc EXCEPT ![w].unique_id = id,
                                       ![w].original_extension = ext,
                                       ![w].upload_path = up,
                                       ![w].converted_path = ConvertedPath(id),
                                       ![w].exc = "OSError"]
                 /\ resp' = [resp EXCEPT ![w] = Reply(500, Body_InternalError)]
    /\ UNCHANGED <<clock, request_timestamps, dirs, log, req, passed, downloads, entry>>

Text_low == <<"l","o","w">>
Text_high == <<"h","i","g","h">>
Text_medium == <<"m","e","d","i","u","m">>
Text_original == <<"o","r","i","g","i","n","a","l">>
Text_1080p == <<"1","0","8","0","p">>
Text_720p == <<"7","2","0","p">>
Text_480p == <<"4","8","0","p">>

\* request.form.get(name, default).lower() (lines 144-145)
FormGetLower_nolower(value, default) == IF value = NoText THEN default ELSE value

FormGetLower(value, default) == Lower(IF value = NoText THEN default ELSE value)

\* lines 152-157: the argument that follows -crf
Crf(compression) ==
    IF compression = Text_low THEN "18"
    ELSE IF compression = Text_high THEN "28"
    ELSE "23"

\* lines 161-167: the argument that follows -vf, None when there is no -vf
Scale(resolution) ==
    IF resolution = Text_1080p THEN "scale=-2:1080"
    ELSE IF resolution = Text_720p THEN "scale=-2:720"
    ELSE IF resolution = Text_480p THEN "scale=-2:480"
    ELSE None

\* lines 143-184: read the options, build the command, start the encoder;
\* subprocess.run raises (FileNotFoundError, OSError) when it cannot start it
UploadSpawn(w) ==
    /\ pc[w] = "spawn"
    /\ LET compression == FormGetLower(req[w].compression, Text_medium)
           resolution  == FormGetLower(req[w].resolution, Text_original)
       IN  \/ /\ loc' = [loc EXCEPT ![w].crf = Crf(compression),
                                    ![w].vf = Scale(resolution)]
              /\ pc' = [pc EXCEPT ![w] = "encoding"]
              /\ UNCHANGED resp
           \/ /\ loc' = [loc EXCEPT ![w].crf = Crf(compression),
                                    ![w].vf = Scale(resolution),
                                    ![w].exc = "FileNotFoundError"]
              /\ pc' = [pc EXCEPT ![w] = "fin_in"]
              /\ resp' = [resp EXCEPT ![w] = Reply(500, Body_InternalError)]
    /\ UNCHANGED <<clock, request_timestamps, dirs, files, minted, log, req, passed, downloads, entry>>

\* the encoder opens its output (ffmpeg -y <converted_path>, line 179)
EncoderOpen(w) ==
    /\ pc[w] = "encoding"
    /\ ~loc[w].opened
    /\ files' = With(files, loc[w].converted_path, "partial")
    /\ loc' = [loc EXCEPT ![w].opened = TRUE]
    /\ UNCHANGED <<clock, request_timestamps, dirs, minted, log, pc, req, resp, passed, downloads, entry>>

Stderrs == {"stderr-a", "stderr-b"}

ConversionFailedBody_leaky(stderr) == stderr

\* line 196: the body does not use e.stderr
ConversionFailedBody(stderr) == Body_ConversionFailed

\* line 184 returning: the encoder exits.  Status 0 needs the output to have
\* been written (it is complete if it is still linked at its path); any
\* other status makes subprocess.run(check=True) raise CalledProcessError
\* before `process` is bound (lines 191-196)
EncoderExit(w, returncode, stderr) ==
    /\ pc[w] = "encoding"
    /\ IF returncode = 0
       THEN /\ loc[w].opened
            /\ files' = IF Exists(loc[w].converted_path)
                        THEN With(files, loc[w].converted_path, "complete")
                        ELSE files
            /\ loc' = [loc EXCEPT ![w].process = "returncode 0"]
            /\ pc' = [pc EXCEPT ![w] = "success"]
            /\ UNCHANGED <<resp, log>>
       ELSE /\ loc' = [loc EXCEPT ![w].exc = "CalledProcessError"]
            /\ log' = log \cup {stderr}
            /\ resp' = [resp EXCEPT ![w] = Reply(500, ConversionFailedBody(stderr))]
            /\ pc' = [pc EXCEPT ![w] = "fin_in"]
            /\ UNCHANGED files
    /\ UNCHANGED <<clock, request_timestamps, dirs, minted, req, passed, downloads, entry>>

\* lines 185-189, or an exception raised there (lines 197-201)
UploadSuccess(w) ==
    /\ pc[w] = "success"
    /\ \/ /\ resp' = [resp EXCEPT ![w] =
                        [filename |-> ConvertedFilename(loc[w].unique_id),
                         status |-> 200, body |-> None]]
          /\ UNCHANGED loc
       \/ /\ resp' = [resp EXCEPT ![w] = Reply(500, Body_InternalError)]
          /\ loc' = [loc EXCEPT ![w].exc = "Exception"]
    /\ pc' = [pc EXCEPT ![w] = "fin_in"]
    /\ UNCHANGED <<clock, request_timestamps, dirs, files, minted, log, req, passed, downloads, entry>>

\* line 205: cleanup_file(upload_path), the test of line 49
FinallyInput(w) ==
    /\ pc[w] = "fin_in"
    /\ pc' = [pc EXCEPT ![w] = IF CleanupFinds(loc[w].upload_path)
                               THEN "fin_in_rm" ELSE "fin_out"]
    /\ UNCHANGED <<clock, request_timestamps, dirs, files, minted, log, req, loc, resp, passed, downloads, entry>>

\* line 205: cleanup_file(upload_path), lines 50-54
FinallyInputRemove(w) ==
    /\ pc[w] = "fin_in_rm"
    /\ CleanupRemove(w, loc[w].upload_path, "fin_out")
    /\ UNCHANGED <<clock, request_timestamps, dirs, minted, req, passed, downloads, entry>>

CleansOutput_never(process) == FALSE

CleansOutput_always(process) == TRUE

\* lines 207 and 210: `process` is unbound, or bound with a non-zero
\* returncode
CleansOutput(process) ==
    \/ process # None /\ process # "returncode 0"
    \/ process = None

\* lines 207-211: cleanup_file(converted_path) when called for, the test of
\* line 49
FinallyOutput(w) ==
    /\ pc[w] = "fin_out"
    /\ pc' = [pc EXCEPT ![w] =
                IF CleansOutput(loc[w].process) /\ CleanupFinds(loc[w].converted_path)
                THEN "fin_out_rm" ELSE "done"]
    /\ UNCHANGED <<clock, request_timestamps, dirs, files, minted, log, req, loc, resp, passed, downloads, entry>>

\* lines 208 and 211: cleanup_file(converted_path), lines 50-54
FinallyOutputRemove(w) ==
    /\ pc[w] = "fin_out_rm"
    /\ CleanupRemove(w, loc[w].converted_path, "done")
    /\ UNCHANGED <<clock, request_timestamps, dirs, minted, req, passed, downloads, entry>>


\* ------------------------------------------------------------------
\* download_file (lines 214-246)
\* ------------------------------------------------------------------
Body_InvalidFilename == "Invalid filename"
Body_NotFound == "File not found."
Body_DownloadError == "An error occurred while downloading the file."

Unsafe_never(filename) == FALSE

\* line 220
Unsafe(filename) == secure_filename(filename) # filename

\* lines 219-229
DownloadCheck(w) ==
    /\ pc[w] = "dl_check"
    /\ LET safe_filename == secure_filename(req[w].filename)
           file_path     == <<CONVERTED_FOLDER, safe_filename>>
       IN  IF Unsafe(req[w].filename)
           THEN /\ resp' = [resp EXCEPT ![w] = Reply(400, Body_InvalidFilename)]
                /\ pc' = [pc EXCEPT ![w] = "done"]
                /\ UNCHANGED loc
           ELSE IF ~Exists(file_path)
           THEN /\ resp' = [resp EXCEPT ![w] = Reply(404, Body_NotFound)]
                /\ pc' = [pc EXCEPT ![w] = "done"]
                /\ loc' = [loc EXCEPT ![w].file_path = file_path]
           ELSE /\ pc' = [pc EXCEPT ![w] = "dl_send"]
                /\ loc' = [loc EXCEPT ![w].file_path = file_path]
                /\ UNCHANGED resp
    /\ UNCHANGED <<clock, request_timestamps, dirs, files, minted, log, req, passed, downloads, entry>>

\* lines 231-246: remove_file is registered, then send_from_directory opens
\* the file, or raises NotFound when it is gone (caught at line 244)
DownloadSend(w) ==
    /\ pc[w] = "dl_send"
    /\ IF Exists(loc[w].file_path)
       THEN /\ resp' = [resp EXCEPT ![w] =
                          [filename |-> loc[w].file_path[2], status |-> 200, body |-> None]]
            /\ loc' = [loc EXCEPT ![w].sent = files[loc[w].file_path]]
       ELSE /\ resp' = [resp EXCEPT ![w] = Reply(500, Body_DownloadError)]
            /\ loc' = [loc EXCEPT ![w].exc = "NotFound"]
    /\ pc' = [pc EXCEPT ![w] = "dl_cleanup"]
    /\ UNCHANGED <<clock, request_timestamps, dirs, files, minted, log, req, passed, downloads, entry>>

\* lines 236-239: remove_file runs once the response exists; the test of
\* line 49
DownloadCleanup(w) ==
    /\ pc[w] = "dl_cleanup"
    /\ pc' = [pc EXCEPT ![w] = IF CleanupFinds(loc[w].file_path) THEN "dl_rm" ELSE "done"]
    /\ UNCHANGED <<clock, request_timestamps, dirs, files, minted, log, req, loc, resp, passed, downloads, entry>>

\* lines 236-239: cleanup_file(file_path), lines 50-54
DownloadRemove(w) ==
    /\ pc[w] = "dl_rm"
    /\ CleanupRemove(w, loc[w].file_path, "done")
    /\ UNCHANGED <<clock, request_timestamps, dirs, minted, req, passed, downloads, entry>>

\* the history of the downloads of one name, a repeated status kept once
Record(history, status) ==
    IF Len(history) >= 2 /\ history[Len(history)] = status
    THEN history
    ELSE Append(history, status)

\* the response has been handed to the server; the worker is free again
Return(w) ==
    /\ pc[w] = "done"
    /\ pc' = [pc EXCEPT ![w] = "idle"]
    /\ req' = [req EXCEPT ![w] = NoRequest]
    /\ loc' = [loc EXCEPT ![w] = NoLocals]
    /\ resp' = [resp EXCEPT ![w] = NoResponse]
    /\ downloads' =
          IF req[w].route = "upload" /\ resp[w].status = 200
          THEN (resp[w].filename :> <<>>) @@ downloads
          ELSE IF req[w].route = "download" /\ req[w].filename \in DOMAIN downloads
          THEN [downloads EXCEPT ![req[w].filename] = Record(@, resp[w].status)]
          ELSE downloads
    /\ entry' = [entry EXCEPT ![w] = NoEntry]
    /\ UNCHANGED <<clock, request_timestamps, dirs, files, minted, log, passed>>

\* ------------------------------------------------------------------
\* Requests
\* ------------------------------------------------------------------
Name_movie_MP4 == <<"m","o","v","i","e",".","M","P","4">>
Name_movie_exe == <<"m","o","v","i","e",".","e","x","e">>
Name_movie == <<"m","o","v","i","e">>
Name_a_avi == <<"a",".","a","v","i">>
Name_dot_mp4 == <<".","m","p","4">>
Name_mp4 == <<"m","p","4">>
Name_a_mp4_exe == <<"a",".","m","p","4",".","e","x","e">>
Name_a_b_WebM == <<"a",".","b",".","W","e","b","M">>
Name_a_dot == <<"a",".">>
Name_a_mp4_slash == <<"a",".","m","p","4","/">>
Name_a_mp4x == <<"a",".","m","p","4","x">>
Name_a_MpEg == <<"a"," ","b",".","M","p","E","g">>

Name_traversal == <<".",".","/","s","e","c","r","e","t">>
Name_secret == <<"s","e","c","r","e","t">>
Name_hidden == <<".","j1",".","m","p","4">>
Name_traversal_j1 == <<".",".","/","j1",".","m","p","4">>
Name_spaced == <<"j1"," ",".","m","p","4">>

\* a worker must be able to mint an identifier for every upload it lets in
WillMint(r) == r.route = "upload" /\ Validate(r).status = 0
Minting == {w \in Workers :
               WillMint(req[w]) /\
               pc[w] \in {"gate_prune", "gate_store", "gate_check", "gate_append",
                          "validate", "save"}}
CanMint(r) == WillMint(r) => minted + Cardinality(Minting) < MaxJobs


\* ------------------------------------------------------------------
\* A request reaches a worker (lines 95-97, 214-215)
\* ------------------------------------------------------------------
Arrive(w, r) ==
    /\ pc[w] = "idle"
    /\ CanMint(r)
    /\ pc' = [pc EXCEPT ![w] = IF r.route = "upload" THEN "gate_prune" ELSE "dl_check"]
    /\ req' = [req EXCEPT ![w] = r]
    /\ loc' = [loc EXCEPT ![w] = NoLocals]
    /\ resp' = [resp EXCEPT ![w] = NoResponse]
    /\ entry' = [entry EXCEPT ![w] = [dirs |-> dirs, files |-> files,
                                      timestamps |-> request_timestamps[r.remote_addr],
                                      tokens |-> DOMAIN downloads]]
    /\ UNCHANGED <<clock, request_timestamps, dirs, files, minted, log, passed, downloads>>

GateSteps(w) ==
    GatePrune(w) \/ GateStore(w) \/ GateCheck(w) \/ GateAppend(w)

UploadSteps(w) ==
    \/ UploadValidate(w) \/ UploadSave(w) \/ UploadSpawn(w)
    \/ EncoderOpen(w)
    \/ UploadSuccess(w)
    \/ FinallyInput(w) \/ FinallyInputRemove(w)
    \/ FinallyOutput(w) \/ FinallyOutputRemove(w)

DownloadSteps(w) ==
    DownloadCheck(w) \/ DownloadSend(w) \/ DownloadCleanup(w) \/ DownloadRemove(w)

HandlerSteps(w) ==
    \/ GateSteps(w) \/ UploadSteps(w) \/ DownloadSteps(w)
    \/ \E rc \in {0, 1} : EncoderExit(w, rc, "stderr-a")
    \/ Return(w)

ValidUpload(c) == UploadRequest(c, TRUE, Name_movie_MP4, NoLength, NoText, NoText)
NoFileUpload(c) == UploadRequest(c, FALSE, NoText, NoLength, NoText, NoText)

\* Threads handling valid uploads and downloads concurrently
CoreDownloads ==
    { DownloadRequest(Client1, fn) : fn \in {ConvertedFilename(Token(1)), Name_traversal} }

Next ==
    \/ \E w \in Workers : \E r \in {ValidUpload(Client1)} \cup CoreDownloads :
          Arrive(w, r)
    \/ \E w \in Workers : HandlerSteps(w)

Spec == Init /\ [][Next]_vars

\* One request at a time, drawn from every kind of upload and download
Filenames ==
    { <<>>, Name_movie_MP4, Name_movie_exe, Name_movie, Name_a_avi, Name_dot_mp4,
      Name_mp4, Name_a_mp4_exe, Name_a_b_WebM, Name_a_dot, Name_a_mp4_slash,
      Name_a_mp4x, Name_a_MpEg }

Compressions ==
    { NoText, <<>>, Text_low, <<"L","O","W">>, <<"L","o","w">>, Text_medium,
      <<"M","e","d","i","u","m">>, Text_high, <<"H","I","G","H">>,
      <<"b","e","s","t">>, <<"l","o","w"," ">> }

Resolutions ==
    { NoText, <<>>, Text_original, <<"O","r","i","g","i","n","a","l">>, Text_480p,
      <<"4","8","0","P">>, Text_720p, <<"7","2","0","P">>, Text_1080p,
      <<"1","0","8","0","P">>, <<"4","k">>, <<"1","0","8","0">> }

ContentLengths == {NoLength, 0, 1, MAX_CONTENT_LENGTH, MAX_CONTENT_LENGTH + 1}

SerialUploads ==
    { UploadRequest(Client1, TRUE, fn, NoLength, NoText, NoText) : fn \in Filenames }
    \cup { UploadRequest(Client1, hf, Name_movie_MP4, cl, NoText, NoText) :
             hf \in BOOLEAN, cl \in ContentLengths }
    \cup { UploadRequest(Client1, TRUE, Name_movie_exe, MAX_CONTENT_LENGTH + 1, NoText, NoText) }
    \cup { UploadRequest(Client1, TRUE, Name_a_avi, NoLength, comp, Text_720p) :
             comp \in Compressions }
    \cup { UploadRequest(Client1, TRUE, Name_a_avi, NoLength, Text_high, res) :
             res \in Resolutions }

SerialDownloads ==
    { DownloadRequest(Client1, fn) :
        fn \in {ConvertedFilename(Token(1)), ConvertedFilename(Token(2)), Name_traversal,
                Name_secret, Name_hidden, Name_traversal_j1, Name_spaced} }

NextSerial ==
    \/ \E r \in SerialUploads \cup SerialDownloads : Arrive(1, r)
    \/ GateSteps(1) \/ UploadSteps(1) \/ DownloadSteps(1)
    \/ \E rc \in {0, 1} : \E e \in Stderrs : EncoderExit(1, rc, e)
    \/ Return(1)

SpecSerial == Init /\ [][NextSerial]_vars

\* One request at a time from several clients while the clock advances
NextGate ==
    \/ \E c \in Clients : Arrive(1, NoFileUpload(c))
    \/ GateSteps(1) \/ UploadValidate(1) \/ FinallyInput(1) \/ FinallyOutput(1)
    \/ Return(1)
    \/ \E d \in TickSteps : Tick(d)

SpecGate == Init /\ [][NextGate]_vars

\* Threads passing the gate concurrently for one client
NextGateConc ==
    \/ \E w \in Workers : Len(passed[Client1]) < MaxPassed /\ Arrive(w, NoFileUpload(Client1))
    \/ \E w \in Workers :
          \/ GateSteps(w) \/ UploadValidate(w) \/ FinallyInput(w) \/ FinallyOutput(w)
          \/ Return(w)
    \/ Tick(RATE_LIMIT_WINDOW_SECONDS)

SpecGateConc == Init /\ [][NextGateConc]_vars

\* One thread handling the first upload, valid or without a file part, while
\* the others handle downloads of its output
NextRelease ==
    \/ \E r \in {ValidUpload(Client1), NoFileUpload(Client1)} :
          passed[Client1] = <<>> /\ Arrive(1, r)
    \/ \E w \in Workers \ {1} :
          Arrive(w, DownloadRequest(Client1, ConvertedFilename(Token(1))))
    \/ \E w \in Workers : HandlerSteps(w)

SpecRelease == Init /\ [][NextRelease]_vars

\* One request at a time from one client, with uploads of every outcome,
\* while the clock advances
QuotaUploads ==
    { ValidUpload(Client1), NoFileUpload(Client1),
      UploadRequest(Client1, TRUE, Name_movie_exe, NoLength, NoText, NoText),
      UploadRequest(Client1, TRUE, Name_movie_MP4, MAX_CONTENT_LENGTH + 1, NoText, NoText) }

NextQuota ==
    \/ \E r \in QuotaUploads : Arrive(1, r)
    \/ GateSteps(1) \/ UploadSteps(1)
    \/ \E rc \in {0, 1} : EncoderExit(1, rc, "stderr-a")
    \/ Return(1)
    \/ \E d \in TickSteps : Tick(d)

SpecQuota == Init /\ [][NextQuota]_vars


\* ------------------------------------------------------------------
\* Properties
\* ------------------------------------------------------------------
Done(w) == pc[w] = "done"
UploadDone(w) == pc[w] = "done" /\ req[w].route = "upload"
DownloadDone(w) == pc[w] = "done" /\ req[w].route = "download"

\* the number of requests of client c that passed the gate at a time in lo..hi
PassedBetween(c, lo, hi) ==
    Cardinality({i \in DOMAIN passed[c] : lo <= passed[c][i] /\ passed[c][i] <= hi})

IsSuffix(s, t) ==
    Len(s) <= Len(t) /\ s = SubSeq(t, Len(t) - Len(s) + 1, Len(t))

C2_InputRemoved ==
    \A w \in Workers :
        UploadDone(w) /\ loc[w].upload_path # NoPath => ~Exists(loc[w].upload_path)

\* an upload whose input was saved and whose encoder then failed has returned
C2_Witness ==
    \E w \in Workers :
        /\ UploadDone(w) /\ resp[w].status = 500
        /\ loc[w].exc = "CalledProcessError" /\ loc[w].upload_path # NoPath

\* C3: when the encoder exits non-zero or cannot be started, no file exists
\* at the request's output path once /upload has returned, even if the
\* encoder had written a part of it.
C3_FailedOutputRemoved ==
    \A w \in Workers :
        UploadDone(w) /\ loc[w].exc \in {"CalledProcessError", "FileNotFoundError"}
            => ~Exists(loc[w].converted_path)

\* an upload has returned after its encoder opened the output and failed
C3_Witness ==
    \E w \in Workers :
        UploadDone(w) /\ loc[w].exc = "CalledProcessError" /\ loc[w].opened

\* C4: with requests handled one after another, the downloads of a name a
\* successful upload returned are answered 200 the first time, with the
\* complete file, which is gone when that request completes, and 404 every
\* time after.
C4_SingleUse ==
    /\ \A f \in DOMAIN downloads :
          /\ downloads[f] \in {<<>>, <<200>>, <<200, 404>>}
          /\ downloads[f] # <<>> => ~Exists(<<CONVERTED_FOLDER, f>>)
    /\ \A w \in Workers :
          DownloadDone(w) /\ resp[w].status = 200
              => loc[w].sent = "complete" /\ ~Exists(loc[w].file_path)

\* a result has been downloaded and asked for again
C4_Witness ==
    \E f \in DOMAIN downloads : downloads[f] = <<200, 404>>

\* C5: every step of a download whose name sanitization would change leaves
\* the files and directories as they are and streams nothing, and the
\* request is answered 400.
C5_UnsafeNameRejected ==
    [][\A w \in Workers :
          (/\ req[w].route = "download"
           /\ secure_filename(req[w].filename) # req[w].filename
           /\ pc'[w] # pc[w])
          => /\ files' = files /\ dirs' = dirs
             /\ loc'[w].sent = None
             /\ \/ pc'[w] = "idle"
                \/ pc'[w] = "done" /\ resp'[w].status = 400]_vars

\* a name that sanitizes to the name of an existing result was answered 400
C5_Witness ==
    \E w \in Workers :
        /\ DownloadDone(w) /\ req[w].filename = Name_traversal_j1
        /\ resp[w].status = 400
        /\ Exists(<<CONVERTED_FOLDER, ConvertedFilename(Token(1))>>)

\* text a and text b are equal up to the case of their letters
SameLetters(a, b) ==
    /\ Len(a) = Len(b)
    /\ \A k \in 1..Len(a) :
          a[k] = b[k] \/ \E n \in 1..26 : {a[k], b[k]} = {UpperCase[n], LowerCase[n]}

\* the file name has a last '.', followed by an allowed extension in any case
HasAllowedExtension(f) ==
    \E i \in 1..Len(f) :
        /\ f[i] = "."
        /\ \A j \in (i + 1)..Len(f) : f[j] # "."
        /\ \E e \in ALLOWED_EXTENSIONS : SameLetters(e, SubSeq(f, i + 1, Len(f)))

\* the request is an upload that has been through the validation stage
Validated(w) ==
    /\ req[w].route = "upload"
    /\ pc[w] \notin {"idle", "gate_prune", "gate_store", "gate_check", "gate_append",
                     "validate"}
    /\ resp[w].status # 429

\* C6 as stated: an admitted upload with a file part, an allowed extension
\* and a declared content length over the maximum is answered 413 and
\* creates no temporary file.
C6_OversizeIs413 ==
    \A w \in Workers :
        (/\ UploadDone(w) /\ resp[w].status # 429
         /\ req[w].has_file /\ HasAllowedExtension(req[w].filename)
         /\ req[w].content_length > MAX_FILE_SIZE_MB * 1024 * 1024)
        => resp[w].status = 413 /\ loc[w].upload_path = NoPath

\* C7: an upload whose file part reaches the type check passes it exactly
\* when the name has a '.' followed, after the last one, by an allowed
\* extension in any letter case; otherwise it is answered 400 (with the
\* type message unless the name is empty).
C7_TypeCheck ==
    \A w \in Workers :
        (Validated(w) /\ req[w].has_file /\ loc[w].exc # "RequestEntityTooLarge")
        => IF HasAllowedExtension(req[w].filename)
           THEN resp[w].status # 400
           ELSE /\ resp[w].status = 400
                /\ req[w].filename # <<>> => resp[w].body = Body_InvalidType

\* "movie.MP4" was accepted and its input saved
C7_Witness ==
    \E w \in Workers :
        req[w].route = "upload" /\ req[w].filename = Name_movie_MP4 /\ pc[w] = "spawn"

\* the quality setting and the scale filter the options ask for
ExpectedCrf(compression) ==
    IF compression \in {<<"l","o","w">>, <<"L","O","W">>, <<"L","o","w">>} THEN "18"
    ELSE IF compression \in {<<"h","i","g","h">>, <<"H","I","G","H">>} THEN "28"
    ELSE "23"

ExpectedScale(resolution) ==
    IF resolution \in {<<"4","8","0","p">>, <<"4","8","0","P">>} THEN "scale=-2:480"
    ELSE IF resolution \in {<<"7","2","0","p">>, <<"7","2","0","P">>} THEN "scale=-2:720"
    ELSE IF resolution \in {<<"1","0","8","0","p">>, <<"1","0","8","0","P">>}
    THEN "scale=-2:1080"
    ELSE None

\* C8: whatever the compression and resolution fields hold, the upload is
\* not answered 400 or 413 because of them, and the command has -crf 18, 23,
\* 28 for low, medium, high in any letter case and 23 for anything else, and
\* the scale filter of 480p, 720p, 1080p in any letter case and none for
\* anything else.
C8_Options ==
    \A w \in Workers :
        /\ (/\ Validated(w) /\ req[w].has_file /\ HasAllowedExtension(req[w].filename)
            /\ loc[w].exc # "RequestEntityTooLarge")
           => resp[w].status \notin {400, 413}
        /\ (req[w].route = "upload" /\ pc[w] \in {"encoding", "success"})
           => /\ loc[w].crf = ExpectedCrf(req[w].compression)
              /\ loc[w].vf = ExpectedScale(req[w].resolution)

\* the encoder runs with -crf 18 and the 720 filter for compression "LOW"
C8_Witness ==
    \E w \in Workers :
        /\ pc[w] = "encoding" /\ req[w].compression = <<"L","O","W">>
        /\ loc[w].crf = "18" /\ loc[w].vf = "scale=-2:720"

\* the status and body each kind of failed upload is answered with
FailureKind(w) ==
    IF resp[w].status = 429 THEN "rate limit"
    ELSE IF loc[w].exc = "CalledProcessError" THEN "encoding failed"
    ELSE IF loc[w].exc # None THEN "fault"
    ELSE IF ~req[w].has_file THEN "no file part"
    ELSE IF req[w].filename = <<>> THEN "no file name"
    ELSE IF ~HasAllowedExtension(req[w].filename) THEN "file type"
    ELSE "size"

ErrorResponse(kind) ==
    CASE kind = "rate limit" -> <<429, "Rate limit exceeded. Please wait 60 seconds.">>
      [] kind = "encoding failed" ->
           <<500, "Video conversion failed. The format might be unsupported or the file corrupted.">>
      [] kind = "fault" -> <<500, "An internal server error occurred.">>
      [] kind = "no file part" -> <<400, "No file part provided.">>
      [] kind = "no file name" -> <<400, "No file selected.">>
      [] kind = "file type" -> <<400, "Invalid file type. Allowed types: ...">>
      [] kind = "size" -> <<413, "File is too large. Maximum size is 100 MB.">>

\* C9: the status and body of an /upload error response are a function of
\* the kind of failure alone, never of the encoder's diagnostic output,
\* which is written to the server log.
C9_ErrorBodyByKind ==
    \A w \in Workers :
        UploadDone(w) /\ resp[w].status # 200
        => /\ <<resp[w].status, resp[w].body>> = ErrorResponse(FailureKind(w))
           /\ resp[w].body \notin Stderrs
           /\ loc[w].exc = "CalledProcessError" => log \cap Stderrs # {}

\* encoder failures with both diagnostic outputs have been answered
C9_Witness ==
    \E w \in Workers :
        /\ UploadDone(w) /\ loc[w].exc = "CalledProcessError"
        /\ log = Stderrs

\* no request is being handled
AllIdle == \A w \in Workers : pc[w] = "idle"

Count(s, v) == Cardinality({i \in DOMAIN s : s[i] = v})

\* at most `limit` requests of a client pass the gate within a window
NoOvershoot ==
    \A c \in Clients : \A a \in 0..MaxClock :
        PassedBetween(c, a, a + RATE_LIMIT_WINDOW_SECONDS - 1) <= RATE_LIMIT_REQUESTS

\* with every request answered, the recorded list holds the timestamp of
\* every passed request that is still inside the window
NoLostTimestamp ==
    \A c \in Clients :
        AllIdle =>
            \A t \in 0..MaxClock :
                clock - t < RATE_LIMIT_WINDOW_SECONDS
                    => Count(passed[c], t) <= Count(request_timestamps[c], t)

\* C10 as stated: with the gate's steps of concurrent requests of one
\* client interleaved in any order, admission behaves as if serialized: at
\* most `limit` of its requests pass within a window, and no timestamp of a
\* passed request is lost from the recorded list.
C10_GateSerialized == NoOvershoot /\ NoLostTimestamp


\* an upload answered by the rate limiter, or by the validation stage: with
\* 400 or 413, or with the 500 that an oversize body gets at line 106
Rejected(w) ==
    /\ UploadDone(w)
    /\ \/ resp[w].status \in {429, 400, 413}
       \/ loc[w].exc = "RequestEntityTooLarge"

\* nothing was reserved and the encoder was not started for worker w's request
NothingStarted(w) ==
    /\ loc[w].unique_id = None
    /\ loc[w].upload_path = NoPath /\ loc[w].converted_path = NoPath
    /\ loc[w].crf = None /\ loc[w].process = None /\ ~loc[w].opened

\* C11 as stated: an upload rejected by the rate limiter or by validation
\* has changed nothing in the file system, directories included, and has
\* not started the encoder.
C11_NoMutation ==
    \A w \in Workers :
        Rejected(w) => /\ files = entry[w].files
                       /\ dirs = entry[w].dirs
                       /\ NothingStarted(w)

\* C11 as amended: with requests handled one after another, a rejected
\* upload has created, written and deleted no file and has not started the
\* encoder; a 429 leaves the directories as they were, while a rejection by
\* validation has created the upload and the output directory when they
\* were missing (line 99 runs before the checks) and no other directory.
C11_NoFileMutation ==
    \A w \in Workers :
        Rejected(w) =>
            /\ files = entry[w].files
            /\ NothingStarted(w)
            /\ dirs = IF resp[w].status = 429
                      THEN entry[w].dirs
                      ELSE entry[w].dirs \cup {UPLOAD_FOLDER, CONVERTED_FOLDER}

\* an upload with a disallowed extension arrived when the directories were
\* missing and has been answered 400
C11_Witness ==
    \E w \in Workers :
        /\ Rejected(w) /\ resp[w].status = 400 /\ resp[w].body = Body_InvalidType
        /\ entry[w].dirs = {} /\ dirs = {UPLOAD_FOLDER, CONVERTED_FOLDER}


Gone(path) == path = NoPath \/ ~Exists(path)

\* C12 as stated: once an upload is answered with a status other than 200,
\* neither the input path nor the output path it reserved exists, also
\* when the fault came after the encoder had exited with status zero.
C12_ErrorLeavesNothing ==
    \A w \in Workers :
        (UploadDone(w) /\ resp[w].status # 200)
            => Gone(loc[w].upload_path) /\ Gone(loc[w].converted_path)


\* worker w has answered 200 to a download of a name that an upload had
\* handed out before the download arrived, and sent the converted file
SentToken(w) ==
    /\ req[w].route = "download"
    /\ req[w].filename \in entry[w].tokens
    /\ resp[w].status = 200
    /\ loc[w].sent = "complete"

\* C13 as stated: of the download requests for one handed-out name that are
\* handled concurrently, at most one answers 200 with the file.
C13_AtMostOneSend ==
    \A w1, w2 \in Workers :
        (w1 # w2 /\ SentToken(w1) /\ SentToken(w2))
            => req[w1].filename # req[w2].filename


\* C14 as stated: no download is answered with the content of an output
\* file whose encoder is still running or has failed, that is, with a
\* partially written file (which the download would then delete).
C14_NoEarlyDownload ==
    \A w \in Workers :
        req[w].route = "download" => loc[w].sent # "partial"


\* the gate has decided on worker w's upload and, if it let it pass, has
\* recorded it
Decided(w) ==
    /\ req[w].route = "upload"
    /\ \/ pc[w] = "done" /\ resp[w].status = 429
       \/ pc[w] \in {"validate", "save", "spawn", "encoding", "success", "fin_in",
                     "fin_in_rm", "fin_out", "fin_out_rm"}
       \/ pc[w] = "done" /\ resp[w].status # 429

\* the outcome of the reference rule for worker w's request when `kept` is
\* what the rule keeps of the list recorded at its arrival: rejected with
\* `kept` recorded, or accepted with `kept` and then `now` recorded
DecidedAsBy(w, kept) ==
    IF Len(kept) >= RATE_LIMIT_REQUESTS
    THEN /\ resp[w].status = 429
         /\ request_timestamps[req[w].remote_addr] = kept
    ELSE /\ resp[w].status # 429
         /\ request_timestamps[req[w].remote_addr] = Append(kept, loc[w].now)

EncoderSucceeded(w) == loc[w].crf # None /\ loc[w].process = "returncode 0"

\* a 200 upload names the output of its own, freshly minted identifier, and
\* that file is in place when the handler is through with its cleanup
SuccessNamesOutput(w) ==
    resp[w].status = 200 =>
        /\ loc[w].unique_id \in {Token(n) : n \in 1..minted}
        /\ resp[w].filename = <<loc[w].unique_id, ".", "m", "p", "4">>
        /\ resp[w].filename \notin DOMAIN downloads
        /\ loc[w].converted_path = <<CONVERTED_FOLDER, resp[w].filename>>
        /\ Exists(loc[w].converted_path)
        /\ files[loc[w].converted_path] = "complete"

\* a handed-out name keeps its file for as long as no download of it has
\* been answered 200
KeptUntilServed ==
    \A name \in DOMAIN downloads :
        (/\ \A i \in DOMAIN downloads[name] : downloads[name][i] # 200
         /\ \A w \in Workers :
                ~(req[w].route = "download" /\ req[w].filename = name
                    /\ resp[w].status = 200))
        => Exists(<<CONVERTED_FOLDER, name>>)

\* C16 as stated: an upload is answered 200 exactly when its encoder was
\* started and exited with status zero; the 200 names <token>.mp4 of the
\* request's own token, the handler's cleanup leaves that file, and it
\* stays until a download of it is served.
C16_SuccessIffExitZero ==
    /\ \A w \in Workers :
          UploadDone(w) => /\ resp[w].status = 200 <=> EncoderSucceeded(w)
                           /\ SuccessNamesOutput(w)
    /\ KeptUntilServed

\* C16 as amended: with requests handled one after another, an upload is
\* answered 200 exactly when its encoder was started, exited with status
\* zero and no fault was raised before the response was built (such a fault
\* is answered 500); the rest as stated.
C16_SuccessIffNoFault ==
    /\ \A w \in Workers :
          UploadDone(w) =>
              /\ resp[w].status = 200 <=> (EncoderSucceeded(w) /\ loc[w].exc = None)
              /\ (EncoderSucceeded(w) /\ loc[w].exc # None) => resp[w].status = 500
              /\ SuccessNamesOutput(w)
    /\ KeptUntilServed

\* a second upload has been answered 200 while the output of the first,
\* not yet downloaded, is still in place
C16_Witness ==
    \E w \in Workers :
        /\ UploadDone(w) /\ resp[w].status = 200
        /\ Exists(loc[w].converted_path)
        /\ \E name \in DOMAIN downloads :
               downloads[name] = <<>> /\ Exists(<<CONVERTED_FOLDER, name>>)


\* the path worker w's call of cleanup_file is about, by its position
CleanupPath(w) ==
    IF pc[w] \in {"fin_in", "fin_in_rm"} THEN loc[w].upload_path
    ELSE IF pc[w] \in {"fin_out", "fin_out_rm"} THEN loc[w].converted_path
    ELSE loc[w].file_path

\* where worker w goes on when its call of cleanup_file has returned
AfterCleanup(w) == IF pc[w] \in {"fin_in", "fin_in_rm"} THEN "fin_out" ELSE "done"

\* C17: every step of cleanup_file, whatever its path (None, never
\* created, already removed, or removed by another worker between the test
\* and the delete), raises nothing and lets the caller go on; it leaves the
\* files as they are when the path has no file (so a second call changes
\* nothing) and otherwise removes the file at that path and no other.
C17_ReleaseBestEffort ==
    [][\A w \in Workers :
          /\ (pc[w] \in {"fin_in", "fin_out", "dl_cleanup"} /\ pc'[w] # pc[w])
             => /\ files' = files
                /\ loc'[w].exc = loc[w].exc /\ resp'[w] = resp[w]
                /\ Gone(CleanupPath(w)) => pc'[w] = AfterCleanup(w)
          /\ (pc[w] \in {"fin_in_rm", "fin_out_rm", "dl_rm"} /\ pc'[w] # pc[w])
             => /\ files' = IF Gone(CleanupPath(w)) THEN files
                            ELSE Without(files, CleanupPath(w))
                /\ loc'[w].exc = loc[w].exc /\ resp'[w] = resp[w]
                /\ pc'[w] = AfterCleanup(w)
      ]_vars

\* two calls of cleanup_file found the same file; the later delete found it
\* gone and logged the error, and the download was still answered 200
C17_Witness ==
    /\ Log_RemoveError \in log
    /\ \E w \in Workers :
          /\ DownloadDone(w) /\ resp[w].status = 200 /\ loc[w].exc = None
          /\ ~Exists(loc[w].file_path)


\* the timestamps of the requests of worker w's client that passed the gate
\* before worker w's request was decided
PassedBefore(w) ==
    LET p == passed[req[w].remote_addr]
    IN  IF resp[w].status = 429 THEN p ELSE SubSeq(p, 1, Len(p) - 1)

\* how many of them are less than `window` seconds older than the request
QuotaUsed(w) ==
    Cardinality({i \in DOMAIN PassedBefore(w) :
                    loc[w].now - PassedBefore(w)[i] < RATE_LIMIT_WINDOW_SECONDS})

\* C18: with requests handled one after another, a request that passed the
\* gate has its timestamp recorded before validation runs and whatever its
\* answer is, and a request is answered 429 exactly when `limit` requests
\* of its client, of any outcome, passed the gate within the window.
C18_QuotaAnyOutcome ==
    \A w \in Workers :
        Decided(w) =>
            /\ resp[w].status = 429 <=> QuotaUsed(w) >= RATE_LIMIT_REQUESTS
            /\ resp[w].status # 429 =>
                  LET r == request_timestamps[req[w].remote_addr]
                      p == passed[req[w].remote_addr]
                  IN  /\ r # <<>> /\ r[Len(r)] = loc[w].now
                      /\ p # <<>> /\ p[Len(p)] = loc[w].now

\* a request is answered 429 after `limit` requests passed the gate of which
\* none was answered 200 and one failed after its input had been saved
C18_Witness ==
    \E w \in Workers :
        /\ Decided(w) /\ resp[w].status = 429
        /\ DOMAIN downloads = {}
        /\ minted >= 1
        /\ Len(request_timestamps[req[w].remote_addr]) = RATE_LIMIT_REQUESTS


\* C19 as stated: the input temporary file reserved for an upload that
\* passed the type check ends in the extension that was checked on the raw
\* filename, lower-cased: a member of the allowed set, never empty.
C19_ExtensionKept ==
    \A w \in Workers :
        (req[w].route = "upload" /\ loc[w].upload_path # NoPath) =>
            LET checked == Lower(RSplitLast(req[w].filename, "."))
            IN  /\ loc[w].original_extension = checked
                /\ loc[w].original_extension \in ALLOWED_EXTENSIONS
                /\ loc[w].upload_path =
                      <<UPLOAD_FOLDER, <<loc[w].unique_id, ".">> \o checked>>

=============================================================================
